---- MODULE Spec2Model ----
(***************************************************************************)
(* Model of src/src/main.rs: the Aranet4 history retrieval.                *)
(*                                                                         *)
(* read_aranet calls read_history for Temperature, Pressure, Humidity and  *)
(* CO2 in that order.  read_history reads the stored-sample count, writes  *)
(* the 8-byte range request, subscribes, opens the notification stream and *)
(* then consumes notifications until the running count of written values   *)
(* equals the declared count.  Every step below is the code between two    *)
(* awaits.  A panic (assert_eq!, a Buf read past the end, an index out of  *)
(* bounds) ends the process; an Err of the transport is propagated by `?`. *)
(***************************************************************************)
EXTENDS Integers, Sequences, FiniteSets, TLC

VARIABLES
    cur,           \* position in the order of read_aranet (1..4)
    pc,            \* the await read_history is suspended at, or how it ended
    num_samples,   \* read_history: num_samples
    samples,       \* read_history: samples (the Vec<f32>)
    samples_read,  \* read_history: samples_read
    consumed,      \* the values `notification` has taken in this retrieval, in order
    written,       \* what p.write has sent to the device, in order
    subscribed,    \* p.subscribe(&HISTORY_NOTIFIER) has succeeded
    exit,          \* how the while-let loop was left: "none", "break", "stream_end"
    panic,         \* the panic that ended the process, "none" otherwise
    attempted,     \* the 1-based indices whose slot samples[i - 1] the last frame indexed
    dec_kind,      \* the decoder applied: "sensor_read", "current_reading" ("none": idle)
    dec_input,     \* its input: the sensor and the bytes of the reader
    dec_done,      \* the decoder has run
    dec_output,    \* what it produced
    served,        \* the device: how many of the range requests it has received
    to_emit,       \* the device: the indices of the request served it has yet to send
    air            \* notifications the device has sent that have not reached the host

\* The variables of the history retrieval, of the decoders and of the device.
hvars == <<cur, pc, num_samples, samples, samples_read, consumed, written,
           subscribed, exit, panic, attempted>>
dvars == <<dec_kind, dec_input, dec_done, dec_output>>
evars == <<served, to_emit, air>>

vars == <<hvars, dvars, evars>>

----------------------------------------------------------------------------
(* Bounds of the model. *)

\* The largest stored-sample count the device declares (a u16 in the code).
MaxSamples == 2
\* The largest `length` field of a frame the device emits (a u8 in the code).
MaxLen == 2
\* The number of notifications one retrieval takes from its stream.
MaxFrames == 2

\* The longest current-reading buffer and the longest reader handed to
\* Sensor::read when the decoders are checked on their own.
MaxReadingLen == 14
MaxReaderLen == 3

\* Raw sensor readings the device encodes into a frame.
RawValues == {5, 300}

----------------------------------------------------------------------------
(* Sensor *)

Sensors == {"Temperature", "Humidity", "Pressure", "CO2"}

\* The order of the read_history calls of read_aranet.
SessionOrder == <<"Temperature", "Pressure", "Humidity", "CO2">>

id(self) ==
    CASE self = "Temperature" -> 1
      [] self = "Humidity"    -> 2
      [] self = "Pressure"    -> 3
      [] self = "CO2"         -> 4

\* Bytes Sensor::read takes from the reader.
Width(self) == IF self = "Humidity" THEN 1 ELSE 2

\* Divisor Sensor::read applies.
Scale(self) ==
    CASE self = "Temperature" -> 20
      [] self = "Pressure"    -> 10
      [] OTHER                -> 1

\* An f32 is the pair <<numerator, denominator>>; f32::NAN is 0/0.
NAN == <<0, 0>>

----------------------------------------------------------------------------
(* bytes::Buf on a byte slice.  Each get_* panics when too few bytes       *)
(* remain and otherwise returns the value and the advanced reader.         *)

Drop(s, n) == SubSeq(s, n + 1, Len(s))

get_u8(reader) ==
    IF Len(reader) < 1
    THEN [ok |-> FALSE, value |-> 0, rest |-> reader]
    ELSE [ok |-> TRUE, value |-> reader[1], rest |-> Drop(reader, 1)]

get_u16_le(reader) ==
    IF Len(reader) < 2
    THEN [ok |-> FALSE, value |-> 0, rest |-> reader]
    ELSE [ok |-> TRUE, value |-> reader[1] + 256 * reader[2], rest |-> Drop(reader, 2)]

\* bytes::BufMut::put_u16_le
put_u16_le(n) == <<n % 256, (n \div 256) % 256>>

\* Sensor::read with the humidity taken as a u16 like the other sensors.
read_all_u16(self, reader) ==
    LET r == get_u16_le(reader)
    IN  [ok |-> r.ok, value |-> <<r.value, Scale(self)>>, rest |-> r.rest]

\* Sensor::read
read(self, reader) ==
    LET r == IF self = "Humidity" THEN get_u8(reader) ELSE get_u16_le(reader)
    IN  [ok |-> r.ok, value |-> <<r.value, Scale(self)>>, rest |-> r.rest]

----------------------------------------------------------------------------
(* The device side: what it encodes into notifications. *)

\* One raw reading as the device encodes it for a sensor.
EncodeValue(self, raw) ==
    IF Width(self) = 1 THEN <<raw % 256>> ELSE put_u16_le(raw)

RECURSIVE EncodeValues(_, _)
EncodeValues(self, raws) ==
    IF raws = <<>> THEN <<>>
    ELSE EncodeValue(self, Head(raws)) \o EncodeValues(self, Tail(raws))

\* Notification frame: sensorId(1), startIndex(u16 LE), count(1), values.
FrameBytes(self, index, length, raws) ==
    <<id(self)>> \o put_u16_le(index) \o <<length>> \o EncodeValues(self, raws)

SeqsOfLen(S, n) == [1..n -> S]

\* Payloads that carry `length` values, or one value fewer (a truncated frame).
Payloads(length) ==
    SeqsOfLen(RawValues, length)
        \cup (IF length > 0 THEN SeqsOfLen(RawValues, length - 1) ELSE {})

\* Frames the device emits for a sensor it was asked about.
FrameValues(self) ==
    UNION { { FrameBytes(self, index, length, raws) :
                index \in 0..(MaxSamples + 1), raws \in Payloads(length) } :
            length \in 0..MaxLen }
    \cup { SubSeq(FrameBytes(self, 1, 1, <<>>), 1, h) : h \in 0..3 }

SensorOfId(b) == CHOOSE s \in Sensors : id(s) = b

\* Notifications the stream can yield: frames on HISTORY_NOTIFIER answering one of
\* the range requests written so far (req is the request a frame answers), and
\* notifications of another characteristic.
Notifications ==
    UNION { { [uuid |-> "HISTORY_NOTIFIER", value |-> v, req |-> r] :
                v \in FrameValues(SensorOfId(written[r].data[2])) } :
            r \in 1..Len(written) }
    \cup
    { [uuid |-> "CURRENT_READING_FULL", value |-> v, req |-> 0] :
        v \in {<<>>} \cup { FrameBytes(s, 1, 1, <<5>>) : s \in {"Temperature", "CO2"} } }

----------------------------------------------------------------------------
(* read_history: the body of the while-let loop. *)

\* for_loop with the slot taken as samples[i] (the index not made 0-based).
RECURSIVE for_loop_one_based(_, _, _, _, _, _, _, _)
for_loop_one_based(sensor, i, end, reader, smp, cnt, att, checked) ==
    IF i >= end
    THEN [samples |-> smp, samples_read |-> cnt, attempted |-> att, panic |-> "none"]
    ELSE LET v == read(sensor, reader) IN
         IF ~v.ok
         THEN [samples |-> smp, samples_read |-> cnt, attempted |-> att,
               panic |-> "buffer_underflow"]
         ELSE IF i >= Len(smp)
         THEN [samples |-> smp, samples_read |-> cnt, attempted |-> att \cup {i},
               panic |-> "index_out_of_bounds"]
         ELSE for_loop_one_based(sensor, i + 1, end, v.rest,
                                 [smp EXCEPT ![i + 1] = v.value], cnt + 1,
                                 att \cup {i}, checked)

\* for_loop with the slot taken as samples[samples_read] (values appended in
\* the order of arrival).
RECURSIVE for_loop_append(_, _, _, _, _, _, _, _)
for_loop_append(sensor, i, end, reader, smp, cnt, att, checked) ==
    IF i >= end
    THEN [samples |-> smp, samples_read |-> cnt, attempted |-> att, panic |-> "none"]
    ELSE LET v == read(sensor, reader) IN
         IF ~v.ok
         THEN [samples |-> smp, samples_read |-> cnt, attempted |-> att,
               panic |-> "buffer_underflow"]
         ELSE IF cnt >= Len(smp)
         THEN [samples |-> smp, samples_read |-> cnt, attempted |-> att \cup {cnt + 1},
               panic |-> "index_out_of_bounds"]
         ELSE for_loop_append(sensor, i + 1, end, v.rest,
                              [smp EXCEPT ![cnt + 1] = v.value], cnt + 1,
                              att \cup {cnt + 1}, checked)

\* The for loop over index..index + length.  The assignment evaluates
\* sensor.read first, then the place samples[i - 1]: i - 1 underflows for
\* i = 0 (a panic with overflow checks, an out-of-bounds index without), and
\* the slice index panics past the end of the Vec.
RECURSIVE for_loop(_, _, _, _, _, _, _, _)
for_loop(sensor, i, end, reader, smp, cnt, att, checked) ==
    IF i >= end
    THEN [samples |-> smp, samples_read |-> cnt, attempted |-> att, panic |-> "none"]
    ELSE LET v == read(sensor, reader) IN
         IF ~v.ok
         THEN [samples |-> smp, samples_read |-> cnt, attempted |-> att,
               panic |-> "buffer_underflow"]
         ELSE IF i - 1 < 0
         THEN [samples |-> smp, samples_read |-> cnt, attempted |-> att \cup {i},
               panic |-> IF checked THEN "subtract_overflow" ELSE "index_out_of_bounds"]
         ELSE IF i - 1 >= Len(smp)
         THEN [samples |-> smp, samples_read |-> cnt, attempted |-> att \cup {i},
               panic |-> "index_out_of_bounds"]
         ELSE for_loop(sensor, i + 1, end, v.rest,
                       [smp EXCEPT ![(i - 1) + 1] = v.value], cnt + 1,
                       att \cup {i}, checked)

\* loop_body with the assert_eq! placed after the for loop.
loop_body_late_assert(sensor, notification, smp, cnt, total, checked) ==
    LET keep(p) == [samples |-> smp, samples_read |-> cnt, attempted |-> {},
                    panic |-> p, brk |-> FALSE]
        sensor_id == get_u8(notification.value)
        index     == get_u16_le(sensor_id.rest)
        length    == get_u8(index.rest)
        r == for_loop(SensorOfId(sensor_id.value), index.value,
                      index.value + length.value, length.rest, smp, cnt, {}, checked)
    IN  IF notification.uuid # "HISTORY_NOTIFIER" THEN keep("none")
        ELSE IF ~sensor_id.ok \/ ~index.ok \/ ~length.ok THEN keep("buffer_underflow")
        ELSE [samples |-> r.samples, samples_read |-> r.samples_read,
              attempted |-> r.attempted,
              panic |-> IF r.panic # "none" THEN r.panic
                        ELSE IF sensor_id.value # id(sensor) THEN "assert_eq"
                        ELSE "none",
              brk |-> r.panic = "none" /\ sensor_id.value = id(sensor)
                        /\ r.samples_read = total]

\* loop_body without the test of notification.uuid.
loop_body_no_filter(sensor, notification, smp, cnt, total, checked) ==
    LET keep(p) == [samples |-> smp, samples_read |-> cnt, attempted |-> {},
                    panic |-> p, brk |-> FALSE]
        sensor_id == get_u8(notification.value)
        index     == get_u16_le(sensor_id.rest)
        length    == get_u8(index.rest)
        r == for_loop(sensor, index.value, index.value + length.value, length.rest,
                      smp, cnt, {}, checked)
    IN  IF ~sensor_id.ok \/ ~index.ok \/ ~length.ok THEN keep("buffer_underflow")
        ELSE IF sensor_id.value # id(sensor) THEN keep("assert_eq")
        ELSE [samples |-> r.samples, samples_read |-> r.samples_read,
              attempted |-> r.attempted, panic |-> r.panic,
              brk |-> r.panic = "none" /\ r.samples_read = total]

\* loop_body that takes a frame only when it continues where the last one
\* ended (index = samples_read + 1) and skips any other.
loop_body_in_order(sensor, notification, smp, cnt, total, checked) ==
    LET keep(p) == [samples |-> smp, samples_read |-> cnt, attempted |-> {},
                    panic |-> p, brk |-> FALSE]
        sensor_id == get_u8(notification.value)
        index     == get_u16_le(sensor_id.rest)
        length    == get_u8(index.rest)
        r == for_loop(sensor, index.value, index.value + length.value, length.rest,
                      smp, cnt, {}, checked)
    IN  IF notification.uuid # "HISTORY_NOTIFIER" THEN keep("none")
        ELSE IF ~sensor_id.ok \/ ~index.ok \/ ~length.ok THEN keep("buffer_underflow")
        ELSE IF sensor_id.value # id(sensor) THEN keep("assert_eq")
        ELSE IF length.value > 0 /\ index.value # cnt + 1 THEN keep("none")
        ELSE [samples |-> r.samples, samples_read |-> r.samples_read,
              attempted |-> r.attempted, panic |-> r.panic,
              brk |-> r.panic = "none" /\ r.samples_read = total]

\* One iteration of the while-let loop on one notification: `continue` for
\* another characteristic, the header, the assert_eq!, the for loop, and the
\* test samples_read == num_samples that decides the break.
loop_body(sensor, notification, smp, cnt, total, checked) ==
    LET keep(p) == [samples |-> smp, samples_read |-> cnt, attempted |-> {},
                    panic |-> p, brk |-> FALSE]
        sensor_id == get_u8(notification.value)
        index     == get_u16_le(sensor_id.rest)
        length    == get_u8(index.rest)
        r == for_loop(sensor, index.value, index.value + length.value, length.rest,
                      smp, cnt, {}, checked)
    IN  IF notification.uuid # "HISTORY_NOTIFIER" THEN keep("none")
        ELSE IF ~sensor_id.ok \/ ~index.ok \/ ~length.ok THEN keep("buffer_underflow")
        ELSE IF sensor_id.value # id(sensor) THEN keep("assert_eq")
        ELSE [samples |-> r.samples, samples_read |-> r.samples_read,
              attempted |-> r.attempted, panic |-> r.panic,
              brk |-> r.panic = "none" /\ r.samples_read = total]

----------------------------------------------------------------------------
(* The steps of read_aranet and read_history. *)

\* The `sensor` argument of the read_history call in progress.
Target == SessionOrder[cur]

\* RangeRequest with start and end written high byte first.
RangeRequest_big_endian(self) ==
    <<130, id(self), 0, 0, 0, 1, 255, 255>>

\* The range request read_history builds.
RangeRequest(self) ==
    <<130, id(self)>> \o put_u16_le(0) \o put_u16_le(1) \o put_u16_le(65535)

\* read_aranet has read the serial number and the current reading and calls
\* read_history for the first sensor.
Start ==
    /\ cur = 1
    /\ pc = "read_count"
    /\ num_samples = 0
    /\ samples = <<>>
    /\ samples_read = 0
    /\ consumed = <<>>
    /\ written = <<>>
    /\ subscribed = FALSE
    /\ exit = "none"
    /\ panic = "none"
    /\ attempted = {}

\* No decoder is under test.
DecodeIdle ==
    /\ dec_kind = "none"
    /\ dec_input = [sensor |-> "none", bytes |-> <<>>]
    /\ dec_done = FALSE
    /\ dec_output = [panic |-> "none"]

\* The device has received no request and sent nothing.
DeviceIdle ==
    /\ served = 0
    /\ to_emit = {}
    /\ air = <<>>

Init == Start /\ DecodeIdle /\ DeviceIdle

\* p.read(&STORED_READINGS) returns data; num_samples is decoded.
ReadCount(data) ==
    /\ pc = "read_count"
    /\ LET n == get_u16_le(data) IN
       IF n.ok
       THEN /\ num_samples' = n.value
            /\ pc' = "write"
            /\ panic' = panic
       ELSE /\ num_samples' = num_samples
            /\ pc' = "panicked"
            /\ panic' = "buffer_underflow"
    /\ UNCHANGED <<cur, samples, samples_read, consumed, written, subscribed, exit,
                   attempted>>
    /\ UNCHANGED <<dvars, evars>>

ReadStoredReadings ==
    /\ pc = "read_count"
    /\ \E data \in {put_u16_le(n) : n \in 0..MaxSamples} \cup {<<>>, <<1>>} :
          ReadCount(data)

\* p.write(&HISTORY_RANGE, ..) returns; the buffer and the count are created.
WriteHistoryRange ==
    /\ pc = "write"
    /\ written' = Append(written, [characteristic |-> "HISTORY_RANGE",
                                   data |-> RangeRequest(Target),
                                   type |-> "WithoutResponse"])
    /\ samples' = [i \in 1..num_samples |-> NAN]
    /\ samples_read' = 0
    /\ consumed' = <<>>
    /\ attempted' = {}
    /\ pc' = "subscribe"
    /\ UNCHANGED <<cur, num_samples, subscribed, exit, panic>>
    /\ UNCHANGED <<dvars, evars>>

\* p.subscribe(&HISTORY_NOTIFIER) returns.
Subscribe ==
    /\ pc = "subscribe"
    /\ subscribed' = TRUE
    /\ pc' = "notifications"
    /\ UNCHANGED <<cur, num_samples, samples, samples_read, consumed, written, exit,
                   panic, attempted>>
    /\ UNCHANGED <<dvars, evars>>

\* p.notifications() returns the stream.
OpenNotifications ==
    /\ pc = "notifications"
    /\ pc' = "next"
    /\ UNCHANGED <<cur, num_samples, samples, samples_read, consumed, written,
                   subscribed, exit, panic, attempted>>
    /\ UNCHANGED <<dvars, evars>>

\* TransportError handled by starting the retrieval again.
TransportError_restart ==
    /\ pc \in {"read_count", "write", "subscribe", "notifications"}
    /\ pc' = "read_count"
    /\ UNCHANGED <<cur, num_samples, samples, samples_read, consumed, written,
                   subscribed, exit, panic, attempted>>
    /\ UNCHANGED <<dvars, evars>>

\* One of the four transport calls of read_history returns an Err, which `?`
\* propagates out of read_history, read_aranet and main.
TransportError ==
    /\ pc \in {"read_count", "write", "subscribe", "notifications"}
    /\ pc' = "failed"
    /\ UNCHANGED <<cur, num_samples, samples, samples_read, consumed, written,
                   subscribed, exit, panic, attempted>>
    /\ UNCHANGED <<dvars, evars>>

\* NextNotification without the break: the loop goes on after the count is
\* reached.
NextNotification_no_break ==
    /\ pc \in {"next", "return"}
    /\ exit # "stream_end"
    /\ Len(consumed) < MaxFrames
    /\ \E notification \in Notifications, checked \in BOOLEAN :
          LET r == loop_body(Target, notification, samples, samples_read,
                             num_samples, checked) IN
          /\ consumed' = Append(consumed, notification)
          /\ samples' = r.samples
          /\ samples_read' = r.samples_read
          /\ attempted' = r.attempted
          /\ panic' = r.panic
          /\ IF r.panic # "none"
             THEN pc' = "panicked" /\ exit' = exit
             ELSE IF r.brk
             THEN pc' = "return" /\ exit' = "break"
             ELSE pc' = pc /\ exit' = exit
    /\ UNCHANGED <<cur, num_samples, written, subscribed>>
    /\ UNCHANGED <<dvars, evars>>

\* notifications.next() yields Some(notification): one iteration of the loop.
Take(notification, checked) ==
    /\ pc = "next"
    /\ LET r == loop_body(Target, notification, samples, samples_read,
                          num_samples, checked) IN
       /\ consumed' = Append(consumed, notification)
       /\ samples' = r.samples
       /\ samples_read' = r.samples_read
       /\ attempted' = r.attempted
       /\ panic' = r.panic
       /\ IF r.panic # "none"
          THEN pc' = "panicked" /\ exit' = exit
          ELSE IF r.brk
          THEN pc' = "return" /\ exit' = "break"
          ELSE pc' = "next" /\ exit' = exit
    /\ UNCHANGED <<cur, num_samples, written, subscribed>>

NextNotification ==
    /\ Len(consumed) < MaxFrames
    /\ \E notification \in Notifications, checked \in BOOLEAN :
          Take(notification, checked)
    /\ UNCHANGED <<dvars, evars>>

\* notifications.next() yields None: the loop ends without a break.
StreamEnd ==
    /\ pc = "next"
    /\ pc' = "return"
    /\ exit' = "stream_end"
    /\ UNCHANGED <<cur, num_samples, samples, samples_read, consumed, written,
                   subscribed, panic, attempted>>
    /\ UNCHANGED <<dvars, evars>>

\* Ok(samples) is returned and printed; read_aranet goes on to the next sensor,
\* or returns after CO2.  The next read_history creates its own buffer only
\* after its range request is written.
ReturnOk ==
    /\ pc = "return"
    /\ IF cur < Len(SessionOrder)
       THEN cur' = cur + 1 /\ pc' = "read_count"
       ELSE cur' = cur /\ pc' = "done"
    /\ exit' = "none"
    /\ UNCHANGED <<num_samples, samples, samples_read, consumed, written, subscribed,
                   panic, attempted>>
    /\ UNCHANGED <<dvars, evars>>

Next ==
    \/ ReadStoredReadings
    \/ WriteHistoryRange
    \/ Subscribe
    \/ OpenNotifications
    \/ TransportError
    \/ NextNotification
    \/ StreamEnd
    \/ ReturnOk

Spec == Init /\ [][Next]_vars

----------------------------------------------------------------------------
(* The states of the reassembler (spec 4.4), read off the position in      *)
(* read_history.                                                           *)

Requesting     == pc \in {"read_count", "write", "subscribe", "notifications"}
AwaitingFrames == pc = "next"
Complete       == pc = "return" /\ exit = "break"
Aborted        == pc \in {"panicked", "failed"}
State ==
    CASE AwaitingFrames -> "AwaitingFrames"
      [] Complete       -> "Complete"
      [] Aborted        -> "Aborted"
      [] OTHER          -> "Other"

----------------------------------------------------------------------------
(* A notification as a frame of the wire layout, for stating the claims.   *)

OnNotifier(n)    == n.uuid = "HISTORY_NOTIFIER"
HasHeader(n)     == Len(n.value) >= 4
FrameSensorId(n) == n.value[1]
FrameIndex(n)    == n.value[2] + 256 * n.value[3]
FrameLength(n)   == n.value[4]
FramePositions(n) == FrameIndex(n) .. (FrameIndex(n) + FrameLength(n) - 1)

\* The value the frame carries for 1-based index i, as raw / scale.
FrameValueAt(n, i) ==
    LET w   == Width(Target)
        off == 4 + (i - FrameIndex(n)) * w
        raw == IF w = 1 THEN n.value[off + 1]
               ELSE n.value[off + 1] + 256 * n.value[off + 2]
    IN  <<raw, Scale(Target)>>

\* A frame for the sensor being retrieved that carries all its values and
\* addresses only positions of the buffer.
WellFormed(n) ==
    /\ OnNotifier(n)
    /\ HasHeader(n)
    /\ FrameSensorId(n) = id(Target)
    /\ Len(n.value) >= 4 + FrameLength(n) * Width(Target)
    /\ FramePositions(n) \subseteq 1..num_samples

\* The frames consumed so far are well-formed and no two of them address a
\* common position.
DisjointFrames ==
    /\ \A k \in 1..Len(consumed) : WellFormed(consumed[k])
    /\ \A k, l \in 1..Len(consumed) :
          k # l => FramePositions(consumed[k]) \cap FramePositions(consumed[l]) = {}

Covered == UNION { FramePositions(consumed[k]) : k \in 1..Len(consumed) }

\* The notification taken by the step, when the step is an iteration of the loop.
LastTaken == consumed'[Len(consumed')]
Iterates == pc = "next" /\ Len(consumed') = Len(consumed) + 1

----------------------------------------------------------------------------
\* C1: with target-sensor frames whose ranges are disjoint, the retrieval is
\* Complete exactly when the frames processed so far cover 1..num_samples (the
\* frame that brings the running count to num_samples has been processed, and
\* not before), and then position i - 1 of the buffer holds the value the
\* covering frame carries for index i.  No such frame aborts the retrieval.
C1_CompleteExactlyAtTotal ==
    (pc \in {"next", "return", "panicked"} /\ exit # "stream_end" /\ DisjointFrames) =>
        /\ consumed # <<>> => pc # "panicked"
        /\ Complete <=> (consumed # <<>> /\ Covered = 1..num_samples)
        /\ samples_read = Cardinality(Covered)
        /\ Complete =>
              \A i \in 1..num_samples :
                \A k \in 1..Len(consumed) :
                    i \in FramePositions(consumed[k]) =>
                        samples[(i - 1) + 1] = FrameValueAt(consumed[k], i)

C1_Witness ==
    /\ Complete
    /\ DisjointFrames
    /\ Len(consumed) = 2
    /\ FrameLength(consumed[1]) > 0
    /\ FrameLength(consumed[2]) > 0
    /\ samples[1] # samples[2]

\* C2: in Complete the number of distinct written positions equals the
\* declared total: no position of the buffer holds the sentinel.
C2_CompleteHasNoSentinel ==
    Complete => Cardinality({i \in 1..Len(samples) : samples[i] # NAN}) = num_samples

\* C3: a frame on the notifier whose sensor id differs from the target's
\* aborts the retrieval at the assert_eq! and leaves the buffer and the
\* running count as they were.
C3_MismatchAborts ==
    [][ (Iterates /\ OnNotifier(LastTaken) /\ HasHeader(LastTaken)
            /\ FrameSensorId(LastTaken) # id(Target))
        => (/\ pc' = "panicked"
            /\ panic' = "assert_eq"
            /\ samples' = samples
            /\ samples_read' = samples_read) ]_vars

C3_Witness ==
    /\ pc = "panicked"
    /\ panic = "assert_eq"
    /\ samples_read > 0
    /\ \E i \in 1..Len(samples) : samples[i] # NAN

\* C4: every index whose slot a frame makes the reassembler address lies in
\* [1, num_samples]: no write is attempted for index 0 or past the declared
\* total.
C4_AttemptsInRange ==
    pc \in {"next", "return", "panicked"} => attempted \subseteq 1..num_samples

\* C5: processing again the frame that was processed last leaves the buffer
\* as the first processing left it.
C5_SameFrameTwice ==
    [][ (Iterates /\ consumed # <<>>
            /\ OnNotifier(LastTaken)
            /\ LastTaken.value = consumed[Len(consumed)].value
            /\ LastTaken.uuid = consumed[Len(consumed)].uuid)
        => (samples' = samples /\ pc' \in {"next", "return"}) ]_vars

C5_Witness ==
    /\ pc \in {"next", "return"}
    /\ Len(consumed) = 2
    /\ WellFormed(consumed[1])
    /\ FrameLength(consumed[1]) > 0
    /\ consumed[2].value = consumed[1].value
    /\ consumed[2].uuid = consumed[1].uuid

\* The while-let loop run from a fresh buffer over a given sequence of
\* notifications: it stops taking notifications once it has left the loop.
RECURSIVE Replay(_, _)
Replay(st, notifications) ==
    IF notifications = <<>> \/ st.state # "AwaitingFrames" THEN st
    ELSE LET r == loop_body(Target, Head(notifications), st.samples, st.samples_read,
                            num_samples, TRUE)
         IN  Replay([samples |-> r.samples,
                     samples_read |-> r.samples_read,
                     state |-> IF r.panic # "none" THEN "Aborted"
                               ELSE IF r.brk THEN "Complete"
                               ELSE "AwaitingFrames"],
                    Tail(notifications))

Fresh ==
    [samples |-> [i \in 1..num_samples |-> NAN], samples_read |-> 0,
     state |-> "AwaitingFrames"]

\* C6: target-sensor frames that write pairwise disjoint positions give the
\* same buffer and the same state in every order of arrival.
C6_OrderIndependent ==
    ((AwaitingFrames \/ Complete) /\ DisjointFrames) =>
        \A p \in Permutations(1..Len(consumed)) :
            LET other == Replay(Fresh, [k \in 1..Len(consumed) |-> consumed[p[k]]])
            IN  /\ other.samples = samples
                /\ other.samples_read = samples_read
                /\ other.state = State

C6_Witness ==
    /\ Complete
    /\ DisjointFrames
    /\ Len(consumed) = 2
    /\ FrameLength(consumed[1]) > 0
    /\ FrameLength(consumed[2]) > 0
    /\ FrameIndex(consumed[1]) > FrameIndex(consumed[2])

\* C7: while fewer values than the declared total have been written, the
\* retrieval stays in AwaitingFrames (it neither completes nor returns a
\* buffer) and the positions no frame covered hold the sentinel.
C7_StaysAwaiting ==
    (pc \in {"next", "return"} /\ samples_read < num_samples) =>
        /\ AwaitingFrames
        /\ \A i \in 1..num_samples :
              (\A k \in 1..Len(consumed) :
                  ~OnNotifier(consumed[k]) \/ i \notin FramePositions(consumed[k]))
              => samples[i] = NAN

\* C8: a notification of another characteristic changes neither the buffer,
\* nor the running count, nor the state.
C8_OtherCharacteristicIgnored ==
    [][ (Iterates /\ ~OnNotifier(LastTaken))
        => (/\ samples' = samples
            /\ samples_read' = samples_read
            /\ pc' = pc
            /\ panic' = panic
            /\ exit' = exit) ]_vars

C8_Witness ==
    /\ AwaitingFrames
    /\ Len(consumed) = 2
    /\ ~OnNotifier(consumed[1])
    /\ ~OnNotifier(consumed[2])
    /\ ~HasHeader(consumed[1])
    /\ HasHeader(consumed[2])
    /\ FrameSensorId(consumed[2]) # id(Target)

\* C9: once the retrieval is Complete or Aborted, no step takes a further
\* notification or changes the buffer or the running count.
C9_Terminal ==
    [][ (Complete \/ Aborted)
        => (/\ consumed' = consumed
            /\ samples' = samples
            /\ samples_read' = samples_read
            /\ ~AwaitingFrames') ]_vars

C9_Witness ==
    /\ cur > 1
    /\ pc = "read_count"
    /\ consumed # <<>>
    /\ samples_read = num_samples
    /\ samples_read > 0

\* C10: a retrieval takes no frame that answers the range request of an
\* earlier sensor.
C10_NoStaleFrame ==
    \A k \in 1..Len(consumed) :
        OnNotifier(consumed[k]) => consumed[k].req = Len(written)

----------------------------------------------------------------------------
\* C11: the range requests go out in the order Temperature, Pressure,
\* Humidity, CO2, each after the read of the stored-sample count of its own
\* retrieval, and the session moves to the next sensor only when the
\* retrieval in progress is Complete or Aborted.
C11_OneRetrievalAtATime ==
    [][ /\ written' # written =>
              /\ pc = "write"
              /\ Len(written') = cur
              /\ written'[cur].data[2] = <<1, 3, 2, 4>>[cur]
        /\ pc' = "write" => pc = "read_count"
        /\ cur' # cur => (cur' = cur + 1 /\ (Complete \/ Aborted)) ]_vars

\* C12: every range request is [0x82, id, 0, 0, 1, 0, 0xFF, 0xFF] with the id
\* of the sensor retrieved (Temperature 1, Pressure 3, Humidity 2, CO2 4 in
\* the order of the session), written once per retrieval without response.
C12_RangeRequestBytes ==
    /\ pc \in {"read_count", "write"} => Len(written) = cur - 1
    /\ pc \in {"subscribe", "notifications", "next", "return", "done"}
          => Len(written) = cur
    /\ Len(written) \in {cur - 1, cur}
    /\ \A r \in 1..Len(written) :
          written[r] = [characteristic |-> "HISTORY_RANGE",
                        data |-> <<130, <<1, 3, 2, 4>>[r], 0, 0, 1, 0, 255, 255>>,
                        type |-> "WithoutResponse"]

C12_Witness ==
    /\ Len(written) = 4
    /\ pc = "done"

\* The order of the awaits within one read_history.
Rank(p) ==
    CASE p = "read_count"    -> 1
      [] p = "write"         -> 2
      [] p = "subscribe"     -> 3
      [] p = "notifications" -> 4
      [] p = "next"          -> 5
      [] p = "return"        -> 6
      [] OTHER               -> 7

TransportCalls == {"read_count", "write", "subscribe", "notifications"}

\* C15: within a retrieval each transport call is left by the step that
\* completes it and never entered again; a call that fails ends the session
\* at once, with the buffer neither changed nor returned.
C15_NoRetry ==
    [][ /\ (cur' = cur /\ pc \in TransportCalls) => Rank(pc') > Rank(pc)
        /\ cur' = cur => Rank(pc') >= Rank(pc)
        /\ pc' = "failed" =>
              /\ pc \in TransportCalls
              /\ UNCHANGED <<cur, samples, samples_read, consumed, written>>
        /\ pc # "failed" ]_vars

C15_Witness ==
    /\ pc = "failed"
    /\ cur = 2
    /\ Len(written) = 2

\* C17: the running count never exceeds the declared total, whatever
\* target-sensor frames with indices in [1, num_samples] have been processed.
C17_CountAtMostTotal ==
    (/\ pc \in {"subscribe", "notifications", "next", "return"}
     /\ \A k \in 1..Len(consumed) : WellFormed(consumed[k]))
        => samples_read <= num_samples

\* C19: a retrieval with declared total 0 does not wait for a notification.
C19_ZeroTotalNeedsNoFrame ==
    ~(AwaitingFrames /\ num_samples = 0)

----------------------------------------------------------------------------
(* The decoders on their own: Sensor::read on a reader, and the decoding   *)
(* of the current reading in read_aranet, each applied to a drawn input.   *)

\* The bytes the drawn inputs are made of.
DecodeBytes == {7, 200}

BytesUpTo(n) == UNION { [1..k -> DecodeBytes] : k \in 0..n }

\* The fields read_aranet prints from the current reading, in its order.
ReadingFields ==
    <<"CO2", "Temperature", "Pressure", "Humidity", "Battery", "Status", "Interval",
      "Passed">>

\* read_field with the battery level taken as a u16.
read_field_wide_battery(name, reader) ==
    IF name \in Sensors THEN read(name, reader)
    ELSE IF name = "Status" THEN get_u8(reader)
    ELSE get_u16_le(reader)

\* The expression of one println! of read_aranet.
read_field(name, reader) ==
    IF name \in Sensors THEN read(name, reader)
    ELSE IF name \in {"Battery", "Status"} THEN get_u8(reader)
    ELSE get_u16_le(reader)

\* The println! calls in order: each evaluates its read, which panics when the
\* reader is too short, and prints.
RECURSIVE print_fields(_, _, _)
print_fields(fields, reader, printed) ==
    IF fields = <<>> THEN [printed |-> printed, panic |-> "none", rest |-> reader]
    ELSE LET r == read_field(Head(fields), reader) IN
         IF ~r.ok
         THEN [printed |-> printed, panic |-> "buffer_underflow", rest |-> reader]
         ELSE print_fields(Tail(fields), r.rest,
                           Append(printed, [name |-> Head(fields), value |-> r.value]))

InitDecode ==
    /\ Start
    /\ DeviceIdle
    /\ dec_done = FALSE
    /\ dec_output = [panic |-> "none"]
    /\ \/ /\ dec_kind = "sensor_read"
          /\ dec_input \in [sensor : Sensors, bytes : BytesUpTo(MaxReaderLen)]
       \/ /\ dec_kind = "current_reading"
          /\ dec_input \in [sensor : {"none"}, bytes : BytesUpTo(MaxReadingLen)]

\* Sensor::read on the drawn reader.
SensorRead ==
    /\ dec_kind = "sensor_read"
    /\ ~dec_done
    /\ dec_output' = read(dec_input.sensor, dec_input.bytes)
    /\ dec_done' = TRUE
    /\ UNCHANGED <<dec_kind, dec_input, hvars, evars>>

\* read_aranet decodes and prints the current reading it has read.
ReadCurrentReading ==
    /\ dec_kind = "current_reading"
    /\ ~dec_done
    /\ dec_output' = print_fields(ReadingFields, dec_input.bytes, <<>>)
    /\ dec_done' = TRUE
    /\ UNCHANGED <<dec_kind, dec_input, hvars, evars>>

NextDecode ==
    \/ SensorRead
    \/ ReadCurrentReading

SpecDecode == InitDecode /\ [][NextDecode]_vars

\* C13: a current reading shorter than 9 bytes fails with a buffer underflow
\* before any field has been printed.
C13_ShortReadingAtomic ==
    (dec_kind = "current_reading" /\ dec_done /\ Len(dec_input.bytes) < 9) =>
        /\ dec_output.panic = "buffer_underflow"
        /\ dec_output.printed = <<>>

\* C14: Sensor::read takes exactly the width of the sensor from the reader
\* (1 byte for Humidity, 2 for the others) and yields the little-endian value
\* over the scale (Temperature 20, Pressure 10, Humidity and CO2 1); with
\* fewer bytes than the width it fails and takes nothing.
C14_SensorRead ==
    (dec_kind = "sensor_read" /\ dec_done) =>
        LET s == dec_input.sensor
            b == dec_input.bytes
            w == IF s = "Humidity" THEN 1 ELSE 2
            d == IF s = "Temperature" THEN 20 ELSE IF s = "Pressure" THEN 10 ELSE 1
        IN  IF Len(b) >= w
            THEN /\ dec_output.ok
                 /\ dec_output.rest = SubSeq(b, w + 1, Len(b))
                 /\ dec_output.value = <<IF w = 1 THEN b[1] ELSE b[1] + 256 * b[2], d>>
            ELSE /\ ~dec_output.ok
                 /\ dec_output.rest = b

C14_Witness ==
    /\ dec_kind = "sensor_read"
    /\ dec_done
    /\ dec_input.sensor = "Temperature"
    /\ Len(dec_input.bytes) = 3
    /\ dec_input.bytes[1] # dec_input.bytes[2]
    /\ dec_output.ok

\* C16 (as claimed): every current reading of at least 9 bytes is decoded
\* into all eight fields without a buffer underflow.
C16_NineBytesSuffice ==
    (dec_kind = "current_reading" /\ dec_done /\ Len(dec_input.bytes) >= 9) =>
        /\ dec_output.panic = "none"
        /\ Len(dec_output.printed) = 8

\* C16 (amended): the minimum length of a current reading is 13 bytes.  A
\* buffer of at least 13 bytes is decoded in the order CO2, Temperature,
\* Pressure, Humidity, Battery, Status, Interval, Passed without a buffer
\* underflow; a shorter one underflows.
C16_ThirteenBytesSuffice ==
    (dec_kind = "current_reading" /\ dec_done) =>
        LET b == dec_input.bytes IN
        IF Len(b) >= 13
        THEN /\ dec_output.panic = "none"
             /\ dec_output.printed =
                    << [name |-> "CO2",         value |-> <<b[1] + 256 * b[2], 1>>],
                       [name |-> "Temperature", value |-> <<b[3] + 256 * b[4], 20>>],
                       [name |-> "Pressure",    value |-> <<b[5] + 256 * b[6], 10>>],
                       [name |-> "Humidity",    value |-> <<b[7], 1>>],
                       [name |-> "Battery",     value |-> b[8]],
                       [name |-> "Status",      value |-> b[9]],
                       [name |-> "Interval",    value |-> b[10] + 256 * b[11]],
                       [name |-> "Passed",      value |-> b[12] + 256 * b[13]] >>
        ELSE dec_output.panic = "buffer_underflow"

C16_Witness ==
    /\ dec_kind = "current_reading"
    /\ dec_done
    /\ Len(dec_input.bytes) = 13
    /\ dec_output.panic = "none"
    /\ Len(dec_output.printed) = 8

-----------------------------------------------------------------------------
(* read_history against a device that answers each range request with      *)
(* frames covering 1..num_samples exactly once, over a transport that       *)
(* neither fails nor ends the stream.  The request is written WithoutResponse *)
(* (line 168) before subscribe (176) and notifications() (177): the device   *)
(* runs concurrently with the client from the write on.                     *)

\* p.read(&STORED_READINGS) returns the two bytes of the device's count.
ReadDeviceCount ==
    /\ pc = "read_count"
    /\ \E n \in 0..MaxSamples : ReadCount(put_u16_le(n))

\* The device receives the latest range request and plans its answer.
DeviceReceive ==
    /\ served < Len(written)
    /\ served' = served + 1
    /\ to_emit' = 1..num_samples
    /\ air' = air
    /\ UNCHANGED <<hvars, dvars>>

\* The device emits one frame carrying a run of the indices it still owes.
DeviceEmit ==
    /\ served >= 1
    /\ \E index \in to_emit, length \in 1..MaxLen :
          /\ index..(index + length - 1) \subseteq to_emit
          /\ \E raws \in SeqsOfLen(RawValues, length) :
                air' = Append(air,
                    [uuid  |-> "HISTORY_NOTIFIER",
                     value |-> FrameBytes(SensorOfId(written[served].data[2]),
                                          index, length, raws),
                     req   |-> served])
          /\ to_emit' = to_emit \ (index..(index + length - 1))
    /\ served' = served
    /\ UNCHANGED <<hvars, dvars>>

\* The stream of line 177 is open: notifications.next() yields the oldest frame.
Deliver ==
    /\ air # <<>>
    /\ \E checked \in BOOLEAN : Take(Head(air), checked)
    /\ air' = Tail(air)
    /\ UNCHANGED <<served, to_emit, dvars>>

\* No stream is open (notifications() was not called yet, or the stream of the
\* previous call was dropped at return): the frame reaches no one.
Lose ==
    /\ air # <<>>
    /\ pc # "next"
    /\ air' = Tail(air)
    /\ UNCHANGED <<served, to_emit, hvars, dvars>>

\* A notification of another characteristic arrives on the open stream.
OtherNotification ==
    /\ Len(consumed) < MaxFrames
    /\ Take([uuid |-> "CURRENT_READING_FULL", value |-> <<>>, req |-> 0], TRUE)
    /\ UNCHANGED <<dvars, evars>>

NextLive ==
    \/ ReadDeviceCount
    \/ WriteHistoryRange
    \/ Subscribe
    \/ OpenNotifications
    \/ ReturnOk
    \/ DeviceReceive
    \/ DeviceEmit
    \/ Deliver
    \/ Lose
    \/ OtherNotification

\* The client runs whenever it can, the device answers every request it was
\* sent, and the transport hands over every frame.
Fairness ==
    /\ WF_vars(ReadDeviceCount)
    /\ WF_vars(WriteHistoryRange)
    /\ WF_vars(Subscribe)
    /\ WF_vars(OpenNotifications)
    /\ WF_vars(ReturnOk)
    /\ WF_vars(DeviceReceive)
    /\ WF_vars(DeviceEmit)
    /\ WF_vars(Deliver)
    /\ WF_vars(Lose)

SpecLive == Init /\ [][NextLive]_vars /\ Fairness

\* Index i of the answer is carried by a frame still on its way.
InAir(i) ==
    \E k \in 1..Len(air) : air[k].req = served /\ i \in FramePositions(air[k])

\* C18: while a retrieval is subscribed to, or reading, the stream and the device
\* is answering its request, every index of the answer is still to be emitted,
\* on its way to the open stream, or already written into samples: no frame of
\* the answer was emitted before the stream could observe it.
C18_EveryFrameObserved ==
    (pc \in {"subscribe", "notifications", "next", "return"} /\ served = cur)
        => \A i \in 1..num_samples :
              \/ i \in to_emit
              \/ InAir(i)
              \/ samples[i] # NAN

\* C20: with a device that sends frames covering 1..N exactly once and a transport
\* that delivers them without error, a retrieval whose request was written
\* eventually reaches Complete, and a Complete retrieval is left for the next
\* sensor (or the end of the session).
C20_EventuallyComplete ==
    /\ \A k \in 1..4 :
          (cur = k /\ pc = "subscribe") ~> (cur = k /\ Complete)
    /\ Complete ~> (pc \in {"read_count", "done"})

====
